---- MODULE Spec2Model ----
(***************************************************************************)
(* Model of src/app.py: the CSV loader (load_data) and the AnalyticsEngine *)
(* (_detect_match_info, _get_metrics, _calculate_score, _get_risk_label,   *)
(* analyze_all).                                                           *)
(*                                                                         *)
(* Numbers.  Odds, lines and buffers are exact rationals <<num, den>> with *)
(* den > 0, kept in lowest terms.  Lines and buffers are multiples of half *)
(* a point.  NaN odds or lines are not modelled; a null team ("nan") is.   *)
(***************************************************************************)
EXTENDS Integers, Sequences, FiniteSets, TLC

VARIABLES
    csv,            \* the rows of the input file, in file order
    df,             \* the engine's DataFrame (self.df), rows in index order
    spread_buffer,  \* self.spread_buffer
    total_buffer,   \* self.total_buffer
    teams,          \* self.teams: [home |-> .., away |-> ..]
    sort_kind,      \* how the build's default sort orders equal keys
    pc,             \* position of main(): start, loaded, ready, failed
    error,          \* the exception that ended main(), "" when none
    signals,        \* the rows of the DataFrame analyze_all returned last
    prev_signals,   \* the rows of the DataFrame it returned the call before
    calls,          \* number of analyze_all calls that returned
    arg,            \* argument of a single function call (function specs)
    ret             \* its result, <<>> before the call returned

vars == <<csv, df, spread_buffer, total_buffer, teams, sort_kind, pc, error,
          signals, prev_signals, calls, arg, ret>>

(***************************************************************************)
(* Bounds of the model.                                                    *)
(***************************************************************************)
MaxOdds == 260        \* American odds range over -MaxOdds..MaxOdds
MaxCount == 34        \* largest number of rows of one selection
MaxIrregular == 2     \* longest file of freely labelled rows
MaxCalls == 2         \* analyze_all calls on one engine
Surplus == 0          \* rows of a sufficient selection beyond MinObs
MaxFlow == 8          \* money_flow ranges over -MaxFlow/4 .. MaxFlow/4
MaxLine == 1          \* open and close lines range over -MaxLine/2 .. MaxLine/2

(***************************************************************************)
(* Exact rational arithmetic standing for Python/numpy float arithmetic.   *)
(***************************************************************************)
Abs(x) == IF x < 0 THEN -x ELSE x

RECURSIVE Gcd(_, _)
Gcd(a, b) == IF b = 0 THEN a ELSE Gcd(b, a % b)

Rat(n, d) ==
    LET g == Gcd(Abs(n), Abs(d))
        s == IF d < 0 THEN -1 ELSE 1
    IN  <<(s * n) \div g, (s * d) \div g>>

RInt(k) == <<k, 1>>
RAdd(x, y) == Rat(x[1] * y[2] + y[1] * x[2], x[2] * y[2])
RSub(x, y) == Rat(x[1] * y[2] - y[1] * x[2], x[2] * y[2])
RDiv(x, y) == Rat(x[1] * y[2], x[2] * y[1])
RMul(x, y) == Rat(x[1] * y[1], x[2] * y[2])
RLess(x, y) == x[1] * y[2] < y[1] * x[2]

Half(k) == Rat(k, 2)

Max(a, b) == IF a > b THEN a ELSE b
Min(a, b) == IF a < b THEN a ELSE b

\* f"{val:.1f}": val rounded to the nearest tenth, exact ties to the even
\* digit; the result is the number of tenths.
Fmt1(val) ==
    LET x == Rat(10 * val[1], val[2])
        fl == x[1] \div x[2]
        rem2 == 2 * (x[1] - fl * x[2])
    IN  IF rem2 < x[2] THEN fl
        ELSE IF rem2 > x[2] THEN fl + 1
        ELSE IF fl % 2 = 0 THEN fl ELSE fl + 1

(***************************************************************************)
(* load_data                                                               *)
(***************************************************************************)
Null == "nan"

\* lambda odds: 1 + odds / 100 if odds >= 0 else 1 - 100 / odds
DecimalOddsSignSlip(odds) ==
    IF odds >= 0 THEN RAdd(RInt(1), Rat(odds, 100))
                 ELSE RAdd(RInt(1), Rat(100, odds))

DecimalOdds(odds) ==
    IF odds >= 0 THEN RAdd(RInt(1), Rat(odds, 100))
                 ELSE RSub(RInt(1), Rat(100, odds))

WithDecimalOdds(r) ==
    [timestamp |-> r.timestamp, market_type |-> r.market_type, side |-> r.side,
     team |-> r.team, odds |-> r.odds, line |-> r.line,
     decimal_odds |-> DecimalOdds(r.odds)]

Earlier(a, b) == a.timestamp < b.timestamp

load_data(input_file) ==
    SortSeq([i \in DOMAIN input_file |-> WithDecimalOdds(input_file[i])], Earlier)

(***************************************************************************)
(* AnalyticsEngine._detect_match_info                                      *)
(***************************************************************************)
RECURSIVE Unique(_)
\* Series.unique(): the distinct values in order of first appearance; a
\* null team is one of the values.
Unique(s) ==
    IF Len(s) = 0 THEN <<>>
    ELSE LET rest == Unique(SubSeq(s, 1, Len(s) - 1))
             last == s[Len(s)]
         IN  IF \E i \in DOMAIN rest : rest[i] = last THEN rest
             ELSE Append(rest, last)

TeamColumn(d) == [i \in DOMAIN d |-> d[i].team]

IsHomeRow(r) == r.side = "home" /\ r.team # Null
IsAwayRow(r) == r.side = "away" /\ r.team # Null

\* df[df['side'] == s]['team'].dropna()
SideTeams(d, s) ==
    IF s = "home" THEN SelectSeq(d, IsHomeRow) ELSE SelectSeq(d, IsAwayRow)

\* the try block returns: both .iloc[0] find a row
PrimaryFound(d) == Len(SideTeams(d, "home")) > 0 /\ Len(SideTeams(d, "away")) > 0

\* the except block raises IndexError at teams[0]
DetectRaises(d) == ~PrimaryFound(d) /\ Len(Unique(TeamColumn(d))) = 0

_detect_match_info(d) ==
    IF PrimaryFound(d)
    THEN [home |-> SideTeams(d, "home")[1].team, away |-> SideTeams(d, "away")[1].team]
    ELSE LET t == Unique(TeamColumn(d))
         IN  [home |-> t[1], away |-> IF Len(t) > 1 THEN t[2] ELSE "Unknown"]

(***************************************************************************)
(* AnalyticsEngine._get_metrics                                            *)
(***************************************************************************)
MinObs == 5
MinWindow == 3

\* the boolean mask of line 48 or line 50; NaN == x is False
Matches(r, market_type, selection) ==
    IF market_type = "Total"
    THEN r.market_type = "Total" /\ r.side = selection
    ELSE r.market_type = market_type /\ r.team = selection /\ r.team # Null

Subset(d, market_type, selection) ==
    LET keep(r) == Matches(r, market_type, selection) IN SelectSeq(d, keep)

ILocHead(s, n) == SubSeq(s, 1, Min(n, Len(s)))
ILocTail(s, n) == SubSeq(s, Max(1, Len(s) - n + 1), Len(s))

RECURSIVE SumOdds(_)
SumOdds(s) ==
    IF Len(s) = 0 THEN RInt(0) ELSE RAdd(s[1].decimal_odds, SumOdds(Tail(s)))

RECURSIVE SumLine(_)
SumLine(s) ==
    IF Len(s) = 0 THEN RInt(0) ELSE RAdd(Half(s[1].line), SumLine(Tail(s)))

MeanOdds(s) == RDiv(SumOdds(s), RInt(Len(s)))
MeanLine(s) == RDiv(SumLine(s), RInt(Len(s)))

\* int(len(subset) * 0.15): the float product truncates to floor(15 len / 100)
\* for every len below 2000
WindowSize(len) == Max(MinWindow, (len * 15) \div 100)

Prob(avg_odds) == IF RLess(RInt(0), avg_odds) THEN RDiv(RInt(1), avg_odds) ELSE RInt(0)

MetricsOf(subset, market_type, n) ==
    LET open_slice == ILocHead(subset, n)
        close_slice == ILocTail(subset, n)
        avg_open_odds == MeanOdds(open_slice)
        avg_close_odds == MeanOdds(close_slice)
        avg_open_line ==
            IF market_type = "Moneyline" THEN RInt(0) ELSE MeanLine(open_slice)
        avg_close_line ==
            IF market_type = "Moneyline" THEN RInt(0) ELSE MeanLine(close_slice)
        prob_open == Prob(avg_open_odds)
        prob_close == Prob(avg_close_odds)
    IN  [open_line |-> avg_open_line,
         close_line |-> avg_close_line,
         money_flow |-> RMul(RSub(prob_close, prob_open), RInt(100)),
         current_odds |-> avg_close_odds]

\* faulty variant: "<= 5" for "< 5"
_get_metrics_AtMost(d, market_type, selection) ==
    LET subset == Subset(d, market_type, selection)
    IN  IF Len(subset) <= MinObs THEN <<>>
        ELSE <<MetricsOf(subset, market_type, WindowSize(Len(subset)))>>

\* faulty variant: the window never grows beyond 3 rows
_get_metrics_FixedWindow(d, market_type, selection) ==
    LET subset == Subset(d, market_type, selection)
    IN  IF Len(subset) < MinObs THEN <<>>
        ELSE <<MetricsOf(subset, market_type, MinWindow)>>

\* None is <<>>, a metric dict m is <<m>>
_get_metrics(d, market_type, selection) ==
    LET subset == Subset(d, market_type, selection)
    IN  IF Len(subset) < MinObs THEN <<>>
        ELSE <<MetricsOf(subset, market_type, WindowSize(Len(subset)))>>

(***************************************************************************)
(* AnalyticsEngine._calculate_score and _get_risk_label                    *)
(***************************************************************************)
BaseScore == 5

FlowStep(score, m) ==
    IF RLess(Half(1), m.money_flow) THEN score + 2
    ELSE IF RLess(m.money_flow, Half(-1)) THEN score - 2
    ELSE score

MarketStep(score, market_type, m, selection) ==
    IF market_type = "Spread"
    THEN IF RLess(m.close_line, m.open_line) THEN score + 2 ELSE score - 1
    ELSE IF market_type = "Total"
    THEN IF selection = "over" /\ RLess(m.close_line, m.open_line)
               /\ RLess(RInt(0), m.money_flow)
         THEN score + 3
         ELSE IF selection = "under" /\ RLess(m.open_line, m.close_line)
                    /\ RLess(RInt(0), m.money_flow)
         THEN score + 3
         ELSE score
    ELSE IF market_type = "Moneyline"
    THEN IF RLess(Half(3), m.money_flow) THEN score + 3 ELSE score
    ELSE score

\* faulty variant: an unchanged Spread line is not penalised
_calculate_score_Lenient(market_type, m, selection) ==
    LET s1 == FlowStep(BaseScore, m)
        s2 == IF market_type = "Spread" /\ m.close_line = m.open_line
              THEN s1 ELSE MarketStep(s1, market_type, m, selection)
    IN  Max(1, Min(10, s2))

_calculate_score(market_type, m, selection) ==
    Max(1, Min(10, MarketStep(FlowStep(BaseScore, m), market_type, m, selection)))

\* the labels are written without their diacritics ("SCĂZUT" in the source)

\* faulty variant: "> 7" for ">= 7"
_get_risk_label_Strict(score) ==
    IF score > 7 THEN "SCAZUT" ELSE IF score >= 5 THEN "MEDIU" ELSE "RIDICAT"

_get_risk_label(score) ==
    IF score >= 7 THEN "SCAZUT" ELSE IF score >= 5 THEN "MEDIU" ELSE "RIDICAT"

(***************************************************************************)
(* AnalyticsEngine.analyze_all                                             *)
(***************************************************************************)
\* side.upper() and side.title()
Upper(side) == IF side = "over" THEN "OVER" ELSE "UNDER"
Title(side) == IF side = "over" THEN "Over" ELSE "Under"

\* a Safe Bet Line string: its words, and the tenths of the number printed
\* after them (<<>> when the string holds no number)
Text(label, number) == [label |-> label, tenths |-> number]

Row(market, selection, score, line, m) ==
    [Market |-> market, Selection |-> selection, Score |-> score,
     Risk |-> _get_risk_label(score), SafeBetLine |-> line, Metrics |-> m]

SpreadSignal(team, m, buffer) ==
    Row("SPREAD", team, _calculate_score("Spread", m, team),
        Text(team, <<Fmt1(RAdd(m.close_line, buffer))>>), m)

\* faulty variant: the buffer is added for over as it is for under
TotalSignal_AlwaysAdd(side, m, buffer) ==
    Row("TOTAL " \o Upper(side), "Puncte", _calculate_score("Total", m, side),
        Text(Title(side), <<Fmt1(RAdd(m.close_line, buffer))>>), m)

TotalSignal(side, m, buffer) ==
    LET val == IF side = "over" THEN RSub(m.close_line, buffer)
                                ELSE RAdd(m.close_line, buffer)
    IN  Row("TOTAL " \o Upper(side), "Puncte", _calculate_score("Total", m, side),
            Text(Title(side), <<Fmt1(val)>>), m)

MoneylineSignal(team, m) ==
    LET rec == IF RLess(m.current_odds, RInt(2)) THEN "Victorie (ML)"
                                                 ELSE "Evita / H+ Alternativ"
    IN  Row("MONEYLINE", team, _calculate_score("Moneyline", m, team),
            Text(rec, <<>>), m)

\* self.teams.items(): home, then away
TeamItems(t) == <<t.home, t.away>>

\* one loop of analyze_all: the signals its two iterations append
SpreadPass(d, t, buffer) ==
    LET one(team) == LET m == _get_metrics(d, "Spread", team)
                     IN  IF Len(m) > 0 THEN <<SpreadSignal(team, m[1], buffer)>> ELSE <<>>
    IN  one(TeamItems(t)[1]) \o one(TeamItems(t)[2])

TotalPass(d, buffer) ==
    LET one(side) == LET m == _get_metrics(d, "Total", side)
                     IN  IF Len(m) > 0 THEN <<TotalSignal(side, m[1], buffer)>> ELSE <<>>
    IN  one("over") \o one("under")

MoneylinePass(d, t) ==
    LET one(team) == LET m == _get_metrics(d, "Moneyline", team)
                     IN  IF Len(m) > 0 THEN <<MoneylineSignal(team, m[1])>> ELSE <<>>
    IN  one(TeamItems(t)[1]) \o one(TeamItems(t)[2])

Collected(d, t, sb, tb) == SpreadPass(d, t, sb) \o TotalPass(d, tb) \o MoneylinePass(d, t)

Reverse(s) == [i \in DOMAIN s |-> s[Len(s) + 1 - i]]

RECURSIVE SortByScore(_, _)
\* sort_values('Score', ascending=False) with the default kind='quicksort':
\* descending by Score; rows of equal Score keep their order where the
\* build's quicksort happens to be stable ("encounter") and come out in
\* another order where it is not ("reversed" is one such order).
SortByScore(rows, kind) ==
    IF Len(rows) = 0 THEN <<>>
    ELSE LET top == CHOOSE x \in {rows[i].Score : i \in DOMAIN rows} :
                        \A i \in DOMAIN rows : rows[i].Score <= x
             isTop(r) == r.Score = top
             notTop(r) == r.Score # top
             ties == SelectSeq(rows, isTop)
         IN  (IF kind = "encounter" THEN ties ELSE Reverse(ties))
                 \o SortByScore(SelectSeq(rows, notTop), kind)

\* pd.DataFrame([]) has no 'Score' column: sort_values raises KeyError
AnalyzeRaises(d, t, sb, tb) == Len(Collected(d, t, sb, tb)) = 0

analyze_all(d, t, sb, tb, kind) == SortByScore(Collected(d, t, sb, tb), kind)

(***************************************************************************)
(* Input files.  One file holds the quotes of one match: the rows of the   *)
(* six selections analyze_all examines, each selection with no rows, with  *)
(* MinObs - 1 rows or with MinObs + Surplus rows following one of Trends.  *)
(***************************************************************************)
HomeTeam == "TeamA"
AwayTeam == "TeamB"

Selections ==
    << [market_type |-> "Spread",    side |-> "home",  team |-> HomeTeam, base |-> -6],
       [market_type |-> "Spread",    side |-> "away",  team |-> AwayTeam, base |-> 6],
       [market_type |-> "Total",     side |-> "over",  team |-> Null,     base |-> 420],
       [market_type |-> "Total",     side |-> "under", team |-> Null,     base |-> 420],
       [market_type |-> "Moneyline", side |-> "home",  team |-> HomeTeam, base |-> 0],
       [market_type |-> "Moneyline", side |-> "away",  team |-> AwayTeam, base |-> 0] >>

\* odds of the first two quotes, odds of the later ones, move of the line
\* (in half points) after the first two quotes
Trends ==
    << [o1 |-> -150, o2 |-> -150, dl |-> 0],
       [o1 |-> 100,  o2 |-> -200, dl |-> -5],
       [o1 |-> -200, o2 |-> 100,  dl |-> 6] >>

Quotes(g, count, trend, labels) ==
    [i \in 1..count |->
        [market_type |-> Selections[g].market_type,
         side |-> IF labels = "upper" /\ Selections[g].side = "home" THEN "HOME"
                  ELSE IF labels = "upper" /\ Selections[g].side = "away" THEN "AWAY"
                  ELSE Selections[g].side,
         team |-> Selections[g].team,
         odds |-> IF i <= 2 THEN trend.o1 ELSE trend.o2,
         line |-> Selections[g].base + (IF i <= 2 THEN 0 ELSE trend.dl)]]

\* option -1: no rows; 0: MinObs - 1 rows; t >= 1: MinObs + Surplus rows of Trends[t]
QuotesOf(g, option, labels) ==
    IF option < 0 THEN <<>>
    ELSE IF option = 0 THEN Quotes(g, MinObs - 1, Trends[1], labels)
    ELSE Quotes(g, MinObs + Surplus, Trends[option], labels)

Stamp(rows) ==
    [i \in DOMAIN rows |->
        [timestamp |-> i, market_type |-> rows[i].market_type, side |-> rows[i].side,
         team |-> rows[i].team, odds |-> rows[i].odds, line |-> rows[i].line]]

File(choice, labels) ==
    Stamp(QuotesOf(1, choice[1], labels) \o QuotesOf(2, choice[2], labels)
          \o QuotesOf(3, choice[3], labels) \o QuotesOf(4, choice[4], labels)
          \o QuotesOf(5, choice[5], labels) \o QuotesOf(6, choice[6], labels))

RegularFiles == {File(c, "ok") : c \in [1..6 -> 0..Len(Trends)]}

Uniform == {[g \in 1..6 |-> t] : t \in 0..Len(Trends)}

\* files whose rows are not in chronological order, whose side labels are
\* malformed, or that hold no row of the home team or of any team
OddFiles ==
    {Reverse(File(c, "ok")) : c \in Uniform}
    \cup {File(c, "upper") : c \in Uniform}
    \cup {File([c EXCEPT ![1] = -1, ![5] = -1], "ok") : c \in Uniform}
    \cup {File([c EXCEPT ![1] = -1, ![2] = -1, ![5] = -1, ![6] = -1], "ok") : c \in Uniform}

IrregularRows ==
    {[market_type |-> "Spread", side |-> s, team |-> t, odds |-> -110, line |-> -6] :
        s \in {"home", "away", "HOME"}, t \in {HomeTeam, AwayTeam, Null}}

IrregularFiles ==
    UNION {{Stamp(f) : f \in [1..n -> IrregularRows]} : n \in 0..MaxIrregular}

Files == RegularFiles \cup OddFiles \cup IrregularFiles

\* __init__(self, df, spread_buffer=3.5, total_buffer=6.0), and one other
\* configuration
BufferChoices == {<<Half(7), Half(12)>>, <<Half(2), Half(5)>>}

(***************************************************************************)
(* main(): load_data, AnalyticsEngine(data), engine.analyze_all()          *)
(***************************************************************************)
NoTeams == [home |-> "", away |-> ""]

Init ==
    /\ csv \in Files
    /\ df = <<>>
    /\ \E b \in BufferChoices : spread_buffer = b[1] /\ total_buffer = b[2]
    /\ teams = NoTeams
    /\ sort_kind \in {"encounter", "reversed"}
    /\ pc = "start"
    /\ error = ""
    /\ signals = <<>>
    /\ prev_signals = <<>>
    /\ calls = 0
    /\ arg = <<>>
    /\ ret = <<>>

Load ==
    /\ pc = "start"
    /\ df' = load_data(csv)
    /\ pc' = "loaded"
    /\ UNCHANGED <<csv, spread_buffer, total_buffer, teams, sort_kind, error,
                   signals, prev_signals, calls, arg, ret>>

\* AnalyticsEngine.__init__
Construct ==
    /\ pc = "loaded"
    /\ IF DetectRaises(df)
       THEN pc' = "failed" /\ error' = "IndexError" /\ teams' = teams
       ELSE pc' = "ready" /\ error' = error /\ teams' = _detect_match_info(df)
    /\ UNCHANGED <<csv, df, spread_buffer, total_buffer, sort_kind,
                   signals, prev_signals, calls, arg, ret>>

\* faulty variant: the call consumes the oldest observation
AnalyzeAll_Consuming ==
    /\ pc = "ready"
    /\ calls < MaxCalls
    /\ IF AnalyzeRaises(df, teams, spread_buffer, total_buffer)
       THEN /\ pc' = "failed" /\ error' = "KeyError"
            /\ UNCHANGED <<df, signals, prev_signals, calls>>
       ELSE /\ signals' = analyze_all(df, teams, spread_buffer, total_buffer, sort_kind)
            /\ prev_signals' = signals
            /\ calls' = calls + 1
            /\ df' = Tail(df)
            /\ UNCHANGED <<pc, error>>
    /\ UNCHANGED <<csv, spread_buffer, total_buffer, teams, sort_kind, arg, ret>>

AnalyzeAll ==
    /\ pc = "ready"
    /\ calls < MaxCalls
    /\ IF AnalyzeRaises(df, teams, spread_buffer, total_buffer)
       THEN /\ pc' = "failed" /\ error' = "KeyError"
            /\ UNCHANGED <<signals, prev_signals, calls>>
       ELSE /\ signals' = analyze_all(df, teams, spread_buffer, total_buffer, sort_kind)
            /\ prev_signals' = signals
            /\ calls' = calls + 1
            /\ UNCHANGED <<pc, error>>
    /\ UNCHANGED <<csv, df, spread_buffer, total_buffer, teams, sort_kind, arg, ret>>

Next == Load \/ Construct \/ AnalyzeAll

Spec == Init /\ [][Next]_vars

(***************************************************************************)
(* Properties of main()                                                    *)
(***************************************************************************)
Returned == pc = "ready" /\ calls >= 1

\* the six (market, selection) pairs analyze_all examines, with the Market
\* and Selection its signal carries
Pairs ==
    << [market_type |-> "Spread", selection |-> teams.home,
        Market |-> "SPREAD", Selection |-> teams.home],
       [market_type |-> "Spread", selection |-> teams.away,
        Market |-> "SPREAD", Selection |-> teams.away],
       [market_type |-> "Total", selection |-> "over",
        Market |-> "TOTAL OVER", Selection |-> "Puncte"],
       [market_type |-> "Total", selection |-> "under",
        Market |-> "TOTAL UNDER", Selection |-> "Puncte"],
       [market_type |-> "Moneyline", selection |-> teams.home,
        Market |-> "MONEYLINE", Selection |-> teams.home],
       [market_type |-> "Moneyline", selection |-> teams.away,
        Market |-> "MONEYLINE", Selection |-> teams.away] >>

\* number of observations of the file matching a pair (a null team is no team)
Observed(p) ==
    Cardinality({i \in DOMAIN csv :
        /\ csv[i].market_type = p.market_type
        /\ IF p.market_type = "Total" THEN csv[i].side = p.selection
           ELSE csv[i].team = p.selection /\ p.selection # Null})

Emitted(p) ==
    \E i \in DOMAIN signals :
        signals[i].Market = p.Market /\ signals[i].Selection = p.Selection

RiskOf(score) ==
    CASE score >= 7 -> "SCAZUT"
      [] score >= 5 /\ score <= 6 -> "MEDIU"
      [] score < 5 -> "RIDICAT"

\* C1: every signal analyze_all emits has an integer score in 1..10 and the
\* risk label its score alone determines: SCAZUT (low) for 7 and above, MEDIU
\* (medium) for 5 and 6, RIDICAT (high) below 5; the classifier gives one of
\* the three labels to every score in 1..10.
C1_ScoreAndRisk ==
    /\ \A i \in DOMAIN signals :
          /\ signals[i].Score \in 1..10
          /\ signals[i].Risk = RiskOf(signals[i].Score)
    /\ \A x \in 1..10 : _get_risk_label(x) = RiskOf(x)

C1_Witness ==
    /\ Returned
    /\ \E i \in DOMAIN signals : signals[i].Score = 7 /\ signals[i].Risk = "SCAZUT"
    /\ \E i \in DOMAIN signals : signals[i].Score = 5 /\ signals[i].Risk = "MEDIU"
    /\ \E i \in DOMAIN signals : signals[i].Score = 2 /\ signals[i].Risk = "RIDICAT"
    /\ \E i \in DOMAIN signals : signals[i].Score = 10

\* position of a signal in the order analyze_all builds them
EncounterRank(r) ==
    IF r.Market = "SPREAD" THEN (IF r.Selection = teams.home THEN 1 ELSE 2)
    ELSE IF r.Market = "TOTAL OVER" THEN 3
    ELSE IF r.Market = "TOTAL UNDER" THEN 4
    ELSE IF r.Selection = teams.home THEN 5 ELSE 6

Descending == \A i, j \in DOMAIN signals : i < j => signals[i].Score >= signals[j].Score

\* C2: the output of analyze_all is sorted by non-increasing score, and two
\* signals of equal score appear in encounter order (Spread, Total,
\* Moneyline; home before away, over before under).
C2_SortedStable ==
    Returned =>
        /\ Descending
        /\ \A i, j \in DOMAIN signals :
              (i < j /\ signals[i].Score = signals[j].Score)
                  => EncounterRank(signals[i]) < EncounterRank(signals[j])

\* C3: a pair's signal is in the output exactly when at least 5 observations
\* match the pair; when the call ends in an error instead, no pair had 5.
C3_EmittedIffEnough ==
    /\ Returned => \A k \in DOMAIN Pairs : Emitted(Pairs[k]) <=> Observed(Pairs[k]) >= 5
    /\ (pc = "failed" /\ error = "KeyError")
          => \A k \in DOMAIN Pairs : Observed(Pairs[k]) < 5

C3_Witness ==
    /\ Returned
    /\ \E k \in DOMAIN Pairs : Observed(Pairs[k]) = 5 /\ Emitted(Pairs[k])
    /\ \E k \in DOMAIN Pairs : Observed(Pairs[k]) = 4 /\ ~Emitted(Pairs[k])

\* C4: analyze_all never ends in an error because pairs have fewer than 5
\* observations, not even when all six have.
C4_NeverFails == ~(pc = "failed" /\ error = "KeyError")

FirstTeam == df[1].team
OtherTeams == {i \in DOMAIN df : df[i].team # FirstTeam}
SecondTeam ==
    IF OtherTeams = {} THEN "Unknown"
    ELSE df[CHOOSE i \in OtherTeams : \A j \in OtherTeams : i <= j].team

HomeRows == {i \in DOMAIN df : df[i].side = "home" /\ df[i].team # Null}
AwayRows == {i \in DOMAIN df : df[i].side = "away" /\ df[i].team # Null}
First(rows) == df[CHOOSE i \in rows : \A j \in rows : i <= j].team

\* what the match detector yields when it does not raise
DetectedAsSpecified ==
    pc = "ready" =>
        IF HomeRows # {} /\ AwayRows # {}
        THEN teams = [home |-> First(HomeRows), away |-> First(AwayRows)]
        ELSE teams = [home |-> FirstTeam, away |-> SecondTeam]

\* C5: match detection never raises, whatever the observations (the empty
\* set included); when the primary lookup fails, home is the first distinct
\* team value and away the second, or "Unknown".
C5_DetectNeverRaises ==
    /\ ~(pc = "failed" /\ error = "IndexError")
    /\ DetectedAsSpecified

\* C8: every signal's Safe Bet Line comes from its own metric and the
\* buffers: Spread "<team> <close_line + spread_buffer>", Total "Over
\* <close_line - total_buffer>" or "Under <close_line + total_buffer>" (one
\* decimal), Moneyline "Victorie (ML)" exactly when current_odds < 2.0.
C8_SafeBetLine ==
    \A i \in DOMAIN signals :
        LET r == signals[i]
            m == r.Metrics
        IN  CASE r.Market = "SPREAD" ->
                    r.SafeBetLine =
                        Text(r.Selection, <<Fmt1(RAdd(m.close_line, spread_buffer))>>)
              [] r.Market = "TOTAL OVER" ->
                    r.SafeBetLine =
                        Text("Over", <<Fmt1(RSub(m.close_line, total_buffer))>>)
              [] r.Market = "TOTAL UNDER" ->
                    r.SafeBetLine =
                        Text("Under", <<Fmt1(RAdd(m.close_line, total_buffer))>>)
              [] r.Market = "MONEYLINE" ->
                    /\ r.SafeBetLine.tenths = <<>>
                    /\ r.SafeBetLine.label = "Victorie (ML)"
                          <=> m.current_odds[1] < 2 * m.current_odds[2]
                    /\ r.SafeBetLine.label \in {"Victorie (ML)", "Evita / H+ Alternativ"}

C8_Witness ==
    /\ Returned
    /\ \E i \in DOMAIN signals : signals[i].Market = "SPREAD"
    /\ \E i \in DOMAIN signals : signals[i].Market = "TOTAL OVER"
    /\ \E i \in DOMAIN signals : signals[i].Market = "TOTAL UNDER"
    /\ \E i \in DOMAIN signals :
          /\ signals[i].Market = "MONEYLINE"
          /\ signals[i].Metrics.current_odds = RInt(2)
          /\ signals[i].SafeBetLine.label = "Evita / H+ Alternativ"
    /\ \E i \in DOMAIN signals :
          /\ signals[i].Market = "MONEYLINE"
          /\ signals[i].SafeBetLine.label = "Victorie (ML)"

Idle ==
    /\ spread_buffer = Half(7)
    /\ total_buffer = Half(12)
    /\ teams = NoTeams
    /\ sort_kind = "encounter"
    /\ error = ""
    /\ signals = <<>>
    /\ prev_signals = <<>>
    /\ calls = 0
    /\ ret = <<>>

\* the odds conversion of load_data applied to one value
InitOdds ==
    /\ arg \in (-MaxOdds)..MaxOdds
    /\ csv = <<>>
    /\ df = <<>>
    /\ pc = "call"
    /\ Idle

Normalize ==
    /\ pc = "call"
    /\ ret' = <<DecimalOdds(arg)>>
    /\ pc' = "returned"
    /\ UNCHANGED <<csv, df, spread_buffer, total_buffer, teams, sort_kind, error,
                   signals, prev_signals, calls, arg>>

NextOdds == Normalize

SpecOdds == InitOdds /\ [][NextOdds]_vars

\* C9: for every nonzero American odds value the decimal odds are strictly
\* greater than 1, also for negative odds of absolute value below 100.
C9_DecimalAboveOne ==
    (pc = "returned" /\ arg # 0) => ret[1][1] > ret[1][2] /\ ret[1][2] > 0

C9_Witness == pc = "returned" /\ arg = -50 /\ ret = <<RInt(3)>>

\* _calculate_score applied to one metric
ScoreMetrics ==
    {[open_line |-> Half(o), close_line |-> Half(c), money_flow |-> Rat(f, 4),
      current_odds |-> RInt(2)] :
        o \in (-MaxLine)..MaxLine, c \in (-MaxLine)..MaxLine, f \in (-MaxFlow)..MaxFlow}

InitScore ==
    /\ arg \in {<<mt, m, sel>> : mt \in {"Spread", "Total", "Moneyline"},
                                  m \in ScoreMetrics,
                                  sel \in {"over", "under", HomeTeam}}
    /\ csv = <<>>
    /\ df = <<>>
    /\ pc = "call"
    /\ Idle

CalculateScore ==
    /\ pc = "call"
    /\ ret' = <<_calculate_score(arg[1], arg[2], arg[3])>>
    /\ pc' = "returned"
    /\ UNCHANGED <<csv, df, spread_buffer, total_buffer, teams, sort_kind, error,
                   signals, prev_signals, calls, arg>>

NextScore == CalculateScore

SpecScore == InitScore /\ [][NextScore]_vars

FlowTerm(m) ==
    CASE 2 * m.money_flow[1] > m.money_flow[2] -> 2
      [] 2 * m.money_flow[1] < -m.money_flow[2] -> -2
      [] OTHER -> 0

MarketTerm(mt, m, sel) ==
    LET down == m.close_line[1] * m.open_line[2] < m.open_line[1] * m.close_line[2]
        up == m.close_line[1] * m.open_line[2] > m.open_line[1] * m.close_line[2]
        inflow == m.money_flow[1] > 0
    IN  CASE mt = "Spread" -> IF down THEN 2 ELSE -1
          [] mt = "Total" ->
                IF (sel = "over" /\ down /\ inflow) \/ (sel = "under" /\ up /\ inflow)
                THEN 3 ELSE 0
          [] mt = "Moneyline" -> IF 2 * m.money_flow[1] > 3 * m.money_flow[2] THEN 3 ELSE 0

Clamp(x, lo, hi) == IF x < lo THEN lo ELSE IF x > hi THEN hi ELSE x

\* C6: _calculate_score returns clamp(5 + F + M, 1, 10): F is +2 for
\* money_flow > 0.5, -2 for money_flow < -0.5, else 0; M is for Spread +2 if
\* close_line < open_line else -1, for Total +3 if (over, line down, flow > 0)
\* or (under, line up, flow > 0) else 0, for Moneyline +3 if money_flow > 1.5
\* else 0.
C6_ScoreFormula ==
    pc = "returned" =>
        ret = <<Clamp(5 + FlowTerm(arg[2]) + MarketTerm(arg[1], arg[2], arg[3]), 1, 10)>>

C6_Witness ==
    /\ pc = "returned"
    /\ arg[1] = "Spread"
    /\ arg[2].close_line = arg[2].open_line
    /\ arg[2].money_flow = Rat(3, 4)
    /\ ret = <<6>>

\* _get_metrics applied to one selection of a loaded file: selection g has
\* count rows of one trend, the five others MinObs - 1 rows each
MetricFile(g, count, t) ==
    LET rows(h) == IF h = g THEN Quotes(h, count, Trends[t], "ok")
                            ELSE QuotesOf(h, 0, "ok")
    IN  Stamp(rows(1) \o rows(2) \o rows(3) \o rows(4) \o rows(5) \o rows(6))

InitMetrics ==
    /\ \E g \in 1..6, count \in 0..MaxCount, t \in 1..Len(Trends), backwards \in BOOLEAN :
          /\ csv = IF backwards THEN Reverse(MetricFile(g, count, t))
                                ELSE MetricFile(g, count, t)
          /\ arg = <<Selections[g].market_type,
                     IF Selections[g].market_type = "Total" THEN Selections[g].side
                                                            ELSE Selections[g].team>>
    /\ df = <<>>
    /\ pc = "start"
    /\ Idle

GetMetrics ==
    /\ pc = "loaded"
    /\ arg # <<>>
    /\ ret' = <<_get_metrics(df, arg[1], arg[2])>>
    /\ pc' = "returned"
    /\ UNCHANGED <<csv, df, spread_buffer, total_buffer, teams, sort_kind, error,
                   signals, prev_signals, calls, arg>>

NextMetrics == Load \/ GetMetrics

SpecMetrics == InitMetrics /\ [][NextMetrics]_vars

\* the observations of the file matching the call's (market, selection)
Matching ==
    {i \in DOMAIN csv :
        /\ csv[i].market_type = arg[1]
        /\ IF arg[1] = "Total" THEN csv[i].side = arg[2] ELSE csv[i].team = arg[2]}

\* the n chronologically first and the n chronologically last of them
OpenWindow(n) ==
    {i \in Matching :
        Cardinality({j \in Matching : csv[j].timestamp < csv[i].timestamp}) < n}
CloseWindow(n) ==
    {i \in Matching :
        Cardinality({j \in Matching : csv[j].timestamp > csv[i].timestamp}) < n}

\* decimal odds of American odds: 1 + odds/100, or 1 + 100/|odds| if negative
Decimal(odds) == IF odds >= 0 THEN Rat(100 + odds, 100) ELSE Rat(100 - odds, -odds)

RECURSIVE TotalOdds(_)
TotalOdds(S) ==
    IF S = {} THEN RInt(0)
    ELSE LET i == CHOOSE i \in S : TRUE
         IN  RAdd(Decimal(csv[i].odds), TotalOdds(S \ {i}))

RECURSIVE TotalLine(_)
TotalLine(S) ==
    IF S = {} THEN 0
    ELSE LET i == CHOOSE i \in S : TRUE IN csv[i].line + TotalLine(S \ {i})

AvgOdds(S) == RDiv(TotalOdds(S), RInt(Cardinality(S)))
\* lines are held in half points
AvgLine(S) == Rat(TotalLine(S), 2 * Cardinality(S))

SameOdds == \A i, j \in Matching : csv[i].odds = csv[j].odds

\* C7: with count >= 5 matching observations _get_metrics uses the window
\* n = max(3, floor(0.15 * count)), the first n and the last n matching
\* observations in chronological order, and returns current_odds = mean
\* decimal odds of the close window, open_line / close_line = mean line of
\* the open / close window (0 for Moneyline) and money_flow =
\* (1/avg_close_odds - 1/avg_open_odds) * 100; observations that all carry
\* the same odds give money_flow 0, and for Moneyline score 5, risk MEDIU.
C7_Metrics ==
    (pc = "returned" /\ Cardinality(Matching) >= 5) =>
        LET count == Cardinality(Matching)
            n == IF (15 * count) \div 100 > 3 THEN (15 * count) \div 100 ELSE 3
            avg_open == AvgOdds(OpenWindow(n))
            avg_close == AvgOdds(CloseWindow(n))
        IN  /\ Len(ret[1]) = 1
            /\ ret[1][1].current_odds = avg_close
            /\ ret[1][1].open_line =
                  IF arg[1] = "Moneyline" THEN RInt(0) ELSE AvgLine(OpenWindow(n))
            /\ ret[1][1].close_line =
                  IF arg[1] = "Moneyline" THEN RInt(0) ELSE AvgLine(CloseWindow(n))
            /\ ret[1][1].money_flow =
                  RMul(RSub(RDiv(RInt(1), avg_close), RDiv(RInt(1), avg_open)), RInt(100))
            /\ SameOdds =>
                  /\ ret[1][1].money_flow = RInt(0)
                  /\ arg[1] = "Moneyline" =>
                        /\ _calculate_score("Moneyline", ret[1][1], arg[2]) = 5
                        /\ _get_risk_label(5) = "MEDIU"

C7_Witness ==
    /\ pc = "returned"
    /\ Cardinality(Matching) = 27
    /\ Cardinality(OpenWindow(4)) = 4
    /\ Len(ret[1]) = 1
    /\ RLess(RInt(0), ret[1][1].money_flow)
    /\ csv[1].timestamp > csv[2].timestamp

====
